---------------------------- MODULE Spec2Model ----------------------------
(***************************************************************************)
(* Natural-language-to-SQL request pipeline (src/main.py, src/utils.py):   *)
(* the read-only gate, the SQL executor, the existence prober, the         *)
(* tool-calling existence oracle, the session store and the HTTP handlers. *)
(*                                                                         *)
(* A text is a sequence of one-character strings, so that strip(), lower(),*)
(* startswith() and the two regular expressions of quick_check_sql are     *)
(* computed as the code computes them.  The relational engine and the      *)
(* language model are external: what they answer is chosen                 *)
(* nondeterministically from small sets.                                   *)
(***************************************************************************)
EXTENDS Naturals, Sequences, FiniteSets

(***************************************************************************)
(* Bounds of the model.                                                    *)
(***************************************************************************)
\* requests the server handles one after the other in a run of Spec
MaxRequests == 2
\* requests in flight at once in a run of SpecConc
MaxReqs == 2

Reqs == 1..MaxReqs

(***************************************************************************)
(* Characters and texts.                                                   *)
(***************************************************************************)
Upper ==
    <<"A", "B", "C", "D", "E", "F", "G", "H", "I", "J", "K", "L", "M",
      "N", "O", "P", "Q", "R", "S", "T", "U", "V", "W", "X", "Y", "Z">>

Lower ==
    <<"a", "b", "c", "d", "e", "f", "g", "h", "i", "j", "k", "l", "m",
      "n", "o", "p", "q", "r", "s", "t", "u", "v", "w", "x", "y", "z">>

Digits == {"0", "1", "2", "3", "4", "5", "6", "7", "8", "9"}

\* the characters str.strip() removes and the regular expression \s matches
Whitespace == {" ", "\t", "\n", "\r", "\f"}

UpperSet == {Upper[i] : i \in DOMAIN Upper}

LowerSet == {Lower[i] : i \in DOMAIN Lower}

\* the lower-case letter of each upper-case letter
ToLower == [c \in UpperSet |-> Lower[CHOOSE i \in DOMAIN Upper : Upper[i] = c]]

IsUpper(c) == c \in UpperSet

IsLower(c) == c \in LowerSet

\* \w of the regular expressions: what \b separates from the rest
IsWord(c) == IsUpper(c) \/ IsLower(c) \/ c \in Digits \/ c = "_"

lower_char(c) == IF IsUpper(c) THEN ToLower[c] ELSE c

\* str.lower()
lower(s) == [i \in 1..Len(s) |-> lower_char(s[i])]

\* str.strip(): leading and trailing whitespace removed
strip(s) ==
    IF \A i \in 1..Len(s) : s[i] \in Whitespace THEN <<>>
    ELSE LET first == CHOOSE i \in 1..Len(s) :
                          /\ s[i] \notin Whitespace
                          /\ \A j \in 1..(i - 1) : s[j] \in Whitespace
             last  == CHOOSE i \in 1..Len(s) :
                          /\ s[i] \notin Whitespace
                          /\ \A j \in (i + 1)..Len(s) : s[j] \in Whitespace
         IN  SubSeq(s, first, last)

\* str.startswith(prefix)
startswith(s, prefix) ==
    /\ Len(s) >= Len(prefix)
    /\ \A i \in 1..Len(prefix) : s[i] = prefix[i]

kw_select == <<"s", "e", "l", "e", "c", "t">>

kw_with == <<"w", "i", "t", "h">>

kw_explain == <<"e", "x", "p", "l", "a", "i", "n">>

\* sql.strip().lower()
sql_lower(sql) == lower(strip(sql))

\* variant of is_read_only: the text is lower-cased but not trimmed
is_read_only_untrimmed(sql) ==
    LET lowered == lower(sql)
    IN  \/ startswith(lowered, kw_select)
        \/ startswith(lowered, kw_with)
        \/ startswith(lowered, kw_explain)

\* the read-only gate of execute_sql_query
is_read_only(sql) ==
    LET lowered == sql_lower(sql)
    IN  \/ startswith(lowered, kw_select)
        \/ startswith(lowered, kw_with)
        \/ startswith(lowered, kw_explain)

(***************************************************************************)
(* The two regular expressions of quick_check_sql.                         *)
(***************************************************************************)
pat_order_by == <<"o", "r", "d", "e", "r", " ", "b", "y", " ">>

pat_from == <<"f", "r", "o", "m">>

\* the pattern matches the text at position i, whatever the case
MatchAt(s, i, pat) ==
    /\ i >= 1
    /\ i + Len(pat) - 1 <= Len(s)
    /\ \A j \in 1..Len(pat) : lower_char(s[i + j - 1]) = pat[j]

\* the end of the line position i is in: where ".*" stops (it matches no "\n")
LineEnd(s, i) ==
    IF \A j \in i..Len(s) : s[j] # "\n" THEN Len(s)
    ELSE (CHOOSE j \in i..Len(s) :
              s[j] = "\n" /\ \A k \in i..(j - 1) : s[k] # "\n") - 1

RECURSIVE SubOrderByFrom(_, _)
\* re.sub(r"ORDER BY .*", "", s, flags=re.IGNORECASE), scanning from position i
SubOrderByFrom(s, i) ==
    LET text == s
        at   == i
    IN  IF at > Len(text) THEN <<>>
        ELSE IF MatchAt(text, at, pat_order_by)
             THEN SubOrderByFrom(text, LineEnd(text, at + Len(pat_order_by)) + 1)
             ELSE <<text[at]>> \o SubOrderByFrom(text, at + 1)

re_sub_order_by(s) == SubOrderByFrom(s, 1)

\* r"\bFROM\b\s+(.*)" matches with FROM at position i
FromAt(s, i) ==
    /\ MatchAt(s, i, pat_from)
    /\ (i = 1 \/ ~IsWord(s[i - 1]))
    /\ i + Len(pat_from) <= Len(s)
    /\ s[i + Len(pat_from)] \in Whitespace

\* re.search: the leftmost position FROM matches at, 0 when there is none
re_search_from(s) ==
    IF \A i \in 1..Len(s) : ~FromAt(s, i) THEN 0
    ELSE CHOOSE i \in 1..Len(s) :
             FromAt(s, i) /\ \A j \in 1..(i - 1) : ~FromAt(s, j)

\* match.group(1): \s+ takes all the whitespace, (.*) the rest of that line
group_1(s, i) ==
    LET from == i + Len(pat_from)
    IN  IF \A j \in from..Len(s) : s[j] \in Whitespace THEN <<>>
        ELSE LET b == CHOOSE j \in from..Len(s) :
                          /\ s[j] \notin Whitespace
                          /\ \A k \in from..(j - 1) : s[k] \in Whitespace
             IN  SubSeq(s, b, LineEnd(s, b))

txt_exists_head ==
    <<"S", "E", "L", "E", "C", "T", " ", "E", "X", "I", "S", "T", "S", " ",
      "(", "S", "E", "L", "E", "C", "T", " ", "1", " ", "F", "R", "O", "M", " ">>

txt_exists_tail == <<")">>

\* f"SELECT EXISTS (SELECT 1 FROM {after_from})"
exists_query(after_from) == txt_exists_head \o after_from \o txt_exists_tail


(***************************************************************************)
(* Inputs: what clients send and what the language model answers.          *)
(***************************************************************************)
sql_select_1 == <<"S", "E", "L", "E", "C", "T", " ", "1">>

sql_mixed == <<" ", " ", "S", "e", "L", "e", "C", "t", " ", "1">>

sql_with == <<"\n", "\t", "W", "i", "t", "h", " ", "t">>

sql_explain == <<"E", "X", "P", "L", "A", "I", "N", " ", "q", " ">>

sql_drop == <<"d", "r", "o", "p", " ", "t", "a", "b", "l", "e", " ", "x">>

sql_empty == <<>>

sql_blank == <<" ", "\n">>

sql_selec == <<"s", "e", "l", "e", "c">>

sql_wit_h == <<"w", "i", "t", " ", "h">>

sql_xselect == <<"x", "s", "e", "l", "e", "c", "t", " ", "1">>

sql_expla == <<"\t", "e", "x", "p", "l", "a", "i">>

sql_delete ==
    <<"D", "E", "L", "E", "T", "E", " ", "F", "R", "O", "M", " ",
      "P", "r", "o", "d", "u", "c", "t", "s">>

sql_stores ==
    <<"S", "E", "L", "E", "C", "T", " ", "*", " ", "F", "R", "O", "M", " ",
      "S", "t", "o", "r", "e", "s">>

out_padded == <<" ", "s", "e", "l", "e", "c", "t", " ", "1", "\n">>

out_refusal == <<"I", " ", "c", "a", "n", "n", "o", "t", ".">>

arg_ordered ==
    <<"S", "e", "l", "e", "c", "t", " ", "*", " ", "F", "r", "o", "m", " ",
      "S", "t", "o", "r", "e", "s", " ", "O", "r", "d", "e", "r", " ",
      "B", "y", " ", "S", "t", "a", "t", "e">>

arg_lines ==
    <<"S", "E", "L", "E", "C", "T", " ", "*", "\n", "F", "R", "O", "M", " ",
      "S", "t", "o", "r", "e", "s", "\n", "O", "R", "D", "E", "R", " ",
      "B", "Y", " ", "S", "t", "a", "t", "e">>

\* SQLRequest.sql of /execute-sql
ClientSqls ==
    {sql_select_1, sql_mixed, sql_with, sql_explain, sql_drop, sql_empty,
     sql_blank, sql_selec, sql_wit_h, sql_xselect, sql_expla, sql_delete,
     sql_stores}

\* response.choices[0].message.content of the generation call
ModelTexts == {sql_stores, out_padded, sql_delete, out_refusal}

\* the same, for /check-and-execute and for the requests in flight together
ConcTexts == {sql_stores, sql_delete}

\* the sql_query argument the model puts in a tool invocation
ToolArgs == {arg_ordered, sql_delete, sql_select_1}

\* QueryRequest.session_id and QueryRequest.query
Sessions == {"s1", "s2"}

Queries == {"q1", "q2"}

\* the text of the second completion of check_data_existence
Verdicts == {"Data exists.", "No data."}

\* tool_call.function.arguments: the JSON text {"sql_query": ...}
json_dumps(sql_query) == <<"{", "sql_query", sql_query, "}">>

\* json.loads(tool_call.function.arguments)
json_loads(payload) == [k \in {payload[2]} |-> payload[3]]

ToolCall(id, sql_query) == [id |-> id, arguments |-> json_dumps(sql_query)]

\* completion.choices[0].message.tool_calls: none, one or two invocations
ToolCallLists ==
    {<<>>}
    \cup {<<ToolCall("call_1", a)>> : a \in ToolArgs}
    \cup {<<ToolCall("call_1", arg_lines), ToolCall("call_2", sql_delete)>>}

(***************************************************************************)
(* The relational engine (sqlite3), an opaque executor: whether connect()  *)
(* succeeds, and what cursor.execute() answers or raises.                  *)
(***************************************************************************)
EngineErrors == {"OperationalError", "ValueError"}

EngineRaises ==
    {[error |-> e, columns |-> <<>>, rows |-> <<>>] : e \in EngineErrors}

\* outcomes of a statement of the business-data store
SelectOutcomes ==
    {[error |-> "None", columns |-> <<"State">>, rows |-> <<>>],
     [error |-> "None", columns |-> <<"State">>, rows |-> <<<<"NY">>>>]}
    \cup EngineRaises

\* outcomes of SELECT EXISTS (...): one row holding 0 or 1
ExistsOutcomes ==
    {[error |-> "None", columns |-> <<"EXISTS">>, rows |-> <<<<0>>>>],
     [error |-> "None", columns |-> <<"EXISTS">>, rows |-> <<<<1>>>>]}
    \cup EngineRaises

PolicyMessage == "Only read-only queries are allowed."

\* dict(zip(columns, row))
zip_dict(columns, row) ==
    [c \in {columns[i] : i \in DOMAIN columns} |->
        row[CHOOSE i \in DOMAIN columns : columns[i] = c]]

(***************************************************************************)
(* What one call of a core operation did: the argument, what it raised,    *)
(* the connections it opened and closed, the statements it handed to       *)
(* cursor.execute(), and what it returned.                                 *)
(***************************************************************************)
NoCall ==
    [fn |-> "None", arg |-> <<>>, raised |-> "None", message |-> "",
     engine_error |-> "None", connected |-> 0, closed |-> 0,
     executed |-> <<>>, results |-> <<>>, ret |-> FALSE]

\* variant of execute_sql_query: connects and runs the statement, then gates
execute_sql_query_gate_late(sql, connects, engine) ==
    LET c == [NoCall EXCEPT !.fn = "execute_sql_query", !.arg = sql]
    IN  IF ~connects
        THEN [c EXCEPT !.raised = "UnboundLocalError",
                       !.engine_error = "OperationalError"]
        ELSE IF engine.error # "None"
        THEN [c EXCEPT !.raised = engine.error, !.engine_error = engine.error,
                       !.connected = 1, !.closed = 1, !.executed = <<sql>>]
        ELSE IF ~is_read_only(sql)
        THEN [c EXCEPT !.raised = "ValueError", !.message = PolicyMessage,
                       !.connected = 1, !.closed = 1, !.executed = <<sql>>]
        ELSE [c EXCEPT !.connected = 1, !.closed = 1, !.executed = <<sql>>,
                       !.results = [i \in DOMAIN engine.rows |->
                                       zip_dict(engine.columns, engine.rows[i])]]

\* execute_sql_query(sql): the gate, then connect, execute, fetch, close
execute_sql_query(sql, connects, engine) ==
    LET c == [NoCall EXCEPT !.fn = "execute_sql_query", !.arg = sql]
    IN  IF ~is_read_only(sql)
        THEN \* raised before the try: nothing is opened
             [c EXCEPT !.raised = "ValueError", !.message = PolicyMessage]
        ELSE IF ~connects
        THEN \* connect() raises, and "finally: conn.close()" finds conn unbound
             [c EXCEPT !.raised = "UnboundLocalError",
                       !.engine_error = "OperationalError"]
        ELSE IF engine.error # "None"
        THEN \* cursor.execute() raises; finally closes the connection
             [c EXCEPT !.raised = engine.error, !.engine_error = engine.error,
                       !.connected = 1, !.closed = 1, !.executed = <<sql>>]
        ELSE [c EXCEPT !.connected = 1, !.closed = 1, !.executed = <<sql>>,
                       !.results = [i \in DOMAIN engine.rows |->
                                       zip_dict(engine.columns, engine.rows[i])]]

\* quick_check_sql(sql_query): the textual rewrite, then the EXISTS statement.
\* "with sqlite3.connect(...)" commits or rolls back and does not close: the
\* connection is closed only if the runtime has finalized it by the return.
quick_check_sql(sql_query, connects, engine, finalized) ==
    LET c        == [NoCall EXCEPT !.fn = "quick_check_sql", !.arg = sql_query]
        stripped == re_sub_order_by(sql_query)
        at       == re_search_from(stripped)
        stmt     == exists_query(group_1(stripped, at))
        freed    == IF finalized THEN 1 ELSE 0
    IN  IF at = 0
        THEN c
        ELSE IF ~connects
        THEN [c EXCEPT !.raised = "OperationalError",
                       !.engine_error = "OperationalError"]
        ELSE IF engine.error = "ValueError"
        THEN \* except ValueError: return False
             [c EXCEPT !.engine_error = engine.error, !.connected = 1,
                       !.closed = freed, !.executed = <<stmt>>]
        ELSE IF engine.error # "None"
        THEN \* any other exception leaves the try and the with block
             [c EXCEPT !.raised = engine.error, !.engine_error = engine.error,
                       !.connected = 1, !.executed = <<stmt>>]
        ELSE [c EXCEPT !.connected = 1, !.closed = freed,
                       !.executed = <<stmt>>,
                       !.ret = (engine.rows[1][1] # 0)]

(***************************************************************************)
(* The session store: table sessions of sessions.db.                       *)
(***************************************************************************)
\* variant of InsertRow: the row replaces the session's rows (a lost update)
InsertRowReplacing(table, id, session_id, user_request, ai_response) ==
    {row \in table : row.session_id # session_id}
    \cup {[id |-> id, session_id |-> session_id,
           user_request |-> user_request, ai_response |-> ai_response]}

\* INSERT INTO sessions (session_id, user_request, ai_response) VALUES (?, ?, ?)
InsertRow(table, id, session_id, user_request, ai_response) ==
    table \cup {[id |-> id, session_id |-> session_id,
                 user_request |-> user_request, ai_response |-> ai_response]}

\* variant of save_to_session: the insert is issued twice
save_to_session_twice(table, last_id, session_id, user_request, ai_response) ==
    InsertRow(InsertRow(table, last_id + 1, session_id, user_request, ai_response),
              last_id + 2, session_id, user_request, ai_response)

\* save_to_session: the insert takes the next AUTOINCREMENT id and is committed
save_to_session(table, last_id, session_id, user_request, ai_response) ==
    InsertRow(table, last_id + 1, session_id, user_request, ai_response)

RECURSIVE OrderById(_)
\* ORDER BY id ASC
OrderById(rows) ==
    IF rows = {} THEN <<>>
    ELSE LET first == CHOOSE row \in rows : \A other \in rows : row.id <= other.id
         IN  <<first>> \o OrderById(rows \ {first})

\* variant of SelectHistory: the rows of every session
SelectHistoryUnfiltered(table, session_id) == OrderById(table)

\* SELECT user_request, ai_response FROM sessions WHERE session_id = ?
SelectHistory(table, session_id) ==
    OrderById({row \in table : row.session_id = session_id})

\* get_session_history(session_id): the rows as {user, ai} entries
get_session_history(table, session_id) ==
    LET conversation == SelectHistory(table, session_id)
    IN  [i \in DOMAIN conversation |->
            [user |-> conversation[i].user_request,
             ai   |-> conversation[i].ai_response]]

\* f"SQL Query: {sql_query}" if not results else str(results)
ai_response_of(sql_query, results) ==
    IF results = <<>>
    THEN [format |-> "SQL Query: ", sql |-> sql_query, rows |-> <<>>]
    ELSE [format |-> "str", sql |-> <<>>, rows |-> results]

\* str(result) of a bool
str_bool(b) == IF b THEN "True" ELSE "False"

(***************************************************************************)
(* State.                                                                  *)
(***************************************************************************)
VARIABLES
    sessions,   \* the rows of table sessions: id, session_id, user_request, ai_response
    seq,        \* the last id AUTOINCREMENT handed out
    req,        \* per request slot: the handler's position and local variables,
                \* its last core call (call) and the statements it has handed
                \* to the business-data store (ran)
    started,    \* requests accepted so far
    appended    \* per session_id, the {user, ai} pairs save_to_session was called with

vars == <<sessions, seq, req, started, appended>>

NoAiResponse == [format |-> "", sql |-> <<>>, rows |-> <<>>]

NoResponse ==
    [kind |-> "none", error |-> "None", sql |-> <<>>, results |-> <<>>,
     session_id |-> "", data_exists |-> "None"]

\* a slot no request has used yet
Idle ==
    [ep |-> "none", pc |-> "idle", session_id |-> "", query |-> "",
     history |-> <<>>, content |-> <<>>, sql_query |-> <<>>, results |-> <<>>,
     ai_response |-> NoAiResponse, call |-> NoCall, ran |-> <<>>,
     cde |-> "none", tool_calls |-> <<>>, messages |-> <<>>,
     model_calls |-> 0, prober_calls |-> 0, data_exists |-> "None",
     response |-> NoResponse]

\* initialize_session_db(): the table exists and the model starts with it empty
Init ==
    /\ sessions = {}
    /\ seq = 0
    /\ req = [r \in Reqs |-> Idle]
    /\ started = 0
    /\ appended = [s \in Sessions |-> <<>>]

\* a request arrives at slot r: the slot starts afresh
Arrive(r, ep, session_id, query) ==
    [Idle EXCEPT !.ep = ep, !.session_id = session_id, !.query = query]

\* an exception nobody catches: the request ends as a server error
ServerError(rec, error) ==
    [rec EXCEPT !.pc = "done",
                !.response = [NoResponse EXCEPT !.kind = "error", !.error = error]]

StoresUnchanged == UNCHANGED <<sessions, seq, appended>>

\* the statements a call handed to cursor.execute(), with the text they come from
Ran(call) ==
    [i \in DOMAIN call.executed |->
        [statement |-> call.executed[i], source |-> call.arg, via |-> call.fn]]

(***************************************************************************)
(* generate_sql_query: one completion call, the content trimmed.           *)
(***************************************************************************)
generate_sql_query(content) == strip(content)

(***************************************************************************)
(* POST /generate-sql                                                      *)
(***************************************************************************)
generate_sql(r, session_id, query, content) ==
    LET sql_query == generate_sql_query(content)
        rec == [Arrive(r, "generate-sql", session_id, query) EXCEPT
                    !.content = content, !.sql_query = sql_query, !.pc = "done",
                    !.response = [NoResponse EXCEPT !.kind = "sql", !.sql = sql_query]]
    IN  /\ req' = [req EXCEPT ![r] = rec]
        /\ started' = started + 1
        /\ StoresUnchanged

(***************************************************************************)
(* POST /execute-sql                                                       *)
(***************************************************************************)
execute_sql(r, sql, connects, engine) ==
    \E call \in {execute_sql_query(sql, connects, engine)} :
    LET rec == [Arrive(r, "execute-sql", "", "") EXCEPT
                   !.call = call, !.ran = Ran(call)]
    IN  /\ req' = [req EXCEPT ![r] =
                IF call.raised # "None"
                THEN ServerError(rec, call.raised)
                ELSE [rec EXCEPT !.pc = "done", !.results = call.results,
                                 !.response = [NoResponse EXCEPT
                                     !.kind = "rows", !.results = call.results]]]
        /\ started' = started + 1
        /\ StoresUnchanged

(***************************************************************************)
(* GET /new-session                                                        *)
(***************************************************************************)
create_new_session(r, uuid) ==
    /\ req' = [req EXCEPT ![r] =
            [Arrive(r, "new-session", "", "") EXCEPT !.pc = "done",
                !.response = [NoResponse EXCEPT !.kind = "session",
                                                !.session_id = uuid]]]
    /\ started' = started + 1
    /\ StoresUnchanged

(***************************************************************************)
(* POST /query: process_query, one step per call it makes.                 *)
(***************************************************************************)
\* history = get_session_history(request.session_id)
process_query_history(r, session_id, query) ==
    LET history == get_session_history(sessions, session_id)
    IN  /\ req' = [req EXCEPT ![r] =
                [Arrive(r, "query", session_id, query) EXCEPT
                    !.pc = "generate", !.history = history,
                    !.call = [NoCall EXCEPT !.fn = "get_session_history",
                                            !.connected = 1, !.closed = 1]]]
        /\ started' = started + 1
        /\ StoresUnchanged

\* sql_query = generate_sql_query(full_prompt): the prompt carries the history
process_query_generate(r, content) ==
    /\ req[r].ep = "query"
    /\ req[r].pc = "generate"
    /\ req' = [req EXCEPT ![r] =
            [@ EXCEPT !.pc = "execute", !.history = <<>>, !.content = content,
                      !.sql_query = generate_sql_query(content), !.call = NoCall]]
    /\ UNCHANGED started
    /\ StoresUnchanged

\* variant of QueryRejected: no except clause, the policy error ends the request
QueryRejectedAsError(rec) == ServerError(rec, "ValueError")

\* except ValueError: return QueryResponse(sql=sql_query, results=[])
QueryRejected(rec) ==
    [rec EXCEPT !.pc = "done",
                !.response = [NoResponse EXCEPT !.kind = "QueryResponse",
                                                !.sql = rec.sql_query]]

\* try: results = execute_sql_query(sql_query)
process_query_execute(r, connects, engine) ==
    /\ req[r].ep = "query"
    /\ req[r].pc = "execute"
    /\ \E call \in {execute_sql_query(req[r].sql_query, connects, engine)} :
        LET rec == [req[r] EXCEPT !.call = call, !.ran = @ \o Ran(call)]
        IN
        /\ req' = [req EXCEPT ![r] =
                IF call.raised = "ValueError" THEN QueryRejected(rec)
                ELSE IF call.raised # "None" THEN ServerError(rec, call.raised)
                ELSE [rec EXCEPT !.pc = "save", !.results = call.results]]
        /\ UNCHANGED started
        /\ StoresUnchanged

\* save_to_session(request.session_id, request.query, ai_response), then return
process_query_save(r) ==
    LET ai_response == ai_response_of(req[r].sql_query, req[r].results)
    IN  /\ req[r].ep = "query"
        /\ req[r].pc = "save"
        /\ sessions' = save_to_session(sessions, seq, req[r].session_id,
                                       req[r].query, ai_response)
        /\ seq' = seq + 1
        /\ appended' = [appended EXCEPT ![req[r].session_id] =
                            Append(@, [user |-> req[r].query, ai |-> ai_response])]
        /\ req' = [req EXCEPT ![r] =
                [@ EXCEPT !.pc = "done", !.ai_response = ai_response,
                          !.call = [NoCall EXCEPT !.fn = "save_to_session",
                                                  !.connected = 1, !.closed = 1],
                          !.response = [NoResponse EXCEPT
                              !.kind = "QueryResponse", !.sql = req[r].sql_query,
                              !.results = req[r].results]]]
        /\ UNCHANGED started

(***************************************************************************)
(* POST /check-and-execute: check_and_execute, and inside it               *)
(* check_data_existence, one step per call they make.                      *)
(***************************************************************************)
\* sql_query = generate_sql_query(request.query)
check_and_execute_generate(r, session_id, query, content) ==
    /\ req' = [req EXCEPT ![r] =
            [Arrive(r, "check-and-execute", session_id, query) EXCEPT
                !.pc = "offer", !.content = content,
                !.sql_query = generate_sql_query(content)]]
    /\ started' = started + 1
    /\ StoresUnchanged

UserMessage(sql_query) ==
    [role |-> "user", content |-> "Check if data exists for query: ",
     sql |-> sql_query, tool_calls |-> <<>>, tool_call_id |-> ""]

AssistantMessage(tool_calls) ==
    [role |-> "assistant", content |-> "", sql |-> <<>>,
     tool_calls |-> tool_calls, tool_call_id |-> ""]

ToolMessage(tool_call_id, content) ==
    [role |-> "tool", content |-> content, sql |-> <<>>,
     tool_calls |-> <<>>, tool_call_id |-> tool_call_id]

\* check_data_existence: the first completion call, tools offered
check_data_existence_offer(r, tool_calls) ==
    /\ req[r].ep = "check-and-execute"
    /\ req[r].pc = "offer"
    /\ req' = [req EXCEPT ![r] =
            [@ EXCEPT !.pc = "decide", !.cde = "running",
                      !.messages = <<UserMessage(req[r].sql_query)>>,
                      !.model_calls = @ + 1, !.tool_calls = tool_calls]]
    /\ UNCHANGED started
    /\ StoresUnchanged

\* if completion.choices[0].message.tool_calls: the first invocation is run
check_data_existence_decide(r, connects, engine, finalized) ==
    /\ req[r].ep = "check-and-execute"
    /\ req[r].pc = "decide"
    /\ IF req[r].tool_calls = <<>>
       THEN \* the function falls off its end: None
            req' = [req EXCEPT ![r] = [@ EXCEPT !.pc = "execute", !.cde = "returned"]]
       ELSE LET tool_call == req[r].tool_calls[1]
                arguments == json_loads(tool_call.arguments)
            IN  \E call \in {quick_check_sql(arguments["sql_query"], connects,
                                              engine, finalized)} :
                LET rec == [req[r] EXCEPT !.call = call, !.prober_calls = @ + 1,
                                         !.ran = @ \o Ran(call)]
                IN  req' = [req EXCEPT ![r] =
                        IF call.raised # "None"
                        THEN [ServerError(rec, call.raised) EXCEPT !.cde = "raised"]
                        ELSE [rec EXCEPT !.pc = "resolve",
                                !.messages = @ \o
                                    <<AssistantMessage(req[r].tool_calls),
                                      ToolMessage(tool_call.id, str_bool(call.ret))>>]]
    /\ UNCHANGED started
    /\ StoresUnchanged

\* the second completion call; its content is returned
check_data_existence_resolve(r, verdict) ==
    /\ req[r].ep = "check-and-execute"
    /\ req[r].pc = "resolve"
    /\ req' = [req EXCEPT ![r] =
            [@ EXCEPT !.pc = "execute", !.cde = "returned",
                      !.model_calls = @ + 1, !.data_exists = verdict]]
    /\ UNCHANGED started
    /\ StoresUnchanged

\* try: results = execute_sql_query(sql_query), and the response
check_and_execute_execute(r, connects, engine) ==
    /\ req[r].ep = "check-and-execute"
    /\ req[r].pc = "execute"
    /\ \E call \in {execute_sql_query(req[r].sql_query, connects, engine)} :
        \* the locals of check_data_existence are gone
        LET rec == [req[r] EXCEPT !.call = call, !.ran = @ \o Ran(call),
                                 !.cde = "none", !.tool_calls = <<>>,
                                 !.messages = <<>>, !.model_calls = 0,
                                 !.prober_calls = 0]
        IN
        /\ req' = [req EXCEPT ![r] =
                IF call.raised = "ValueError"
                THEN \* QueryResponse(sql, []).model_copy(update={"status": data_exists})
                     [rec EXCEPT !.pc = "done",
                        !.response = [NoResponse EXCEPT
                            !.kind = "QueryResponse", !.sql = rec.sql_query,
                            !.data_exists = rec.data_exists]]
                ELSE IF call.raised # "None" THEN ServerError(rec, call.raised)
                ELSE [rec EXCEPT !.pc = "done", !.results = call.results,
                        !.response = [NoResponse EXCEPT
                            !.kind = "check", !.sql = rec.sql_query,
                            !.results = call.results,
                            !.data_exists = rec.data_exists]]]
        /\ UNCHANGED started
        /\ StoresUnchanged

(***************************************************************************)
(* The server.  Spec: one worker, requests handled one after the other,    *)
(* every endpoint.  SpecConc: the thread pool, /query requests in flight   *)
(* together, each slot serving one request.                                *)
(***************************************************************************)
Admit(r) ==
    /\ r = 1
    /\ started < MaxRequests
    /\ req[r].pc = "idle"

\* the response is sent; the worker is free for the next request
respond(r) ==
    /\ r = 1
    /\ req[r].pc = "done"
    /\ req' = [req EXCEPT ![r] = Idle]
    /\ UNCHANGED started
    /\ StoresUnchanged

AdmitConc(r) == req[r].pc = "idle"

Next ==
    \E r \in Reqs :
        \/ /\ Admit(r)
           /\ \E q \in Queries, content \in ModelTexts :
                  generate_sql(r, "s1", q, content)
        \/ /\ Admit(r)
           /\ \E sql \in ClientSqls, connects \in BOOLEAN, engine \in SelectOutcomes :
                  execute_sql(r, sql, connects, engine)
        \/ /\ Admit(r)
           /\ \E uuid \in Sessions : create_new_session(r, uuid)
        \/ /\ Admit(r)
           /\ \E s \in Sessions, q \in Queries : process_query_history(r, s, q)
        \/ \E content \in ModelTexts : process_query_generate(r, content)
        \/ \E connects \in BOOLEAN, engine \in SelectOutcomes :
               process_query_execute(r, connects, engine)
        \/ process_query_save(r)
        \/ /\ Admit(r)
           /\ \E q \in Queries, content \in ConcTexts :
                  check_and_execute_generate(r, "s1", q, content)
        \/ \E tool_calls \in ToolCallLists : check_data_existence_offer(r, tool_calls)
        \/ \E connects \in BOOLEAN, engine \in ExistsOutcomes, finalized \in BOOLEAN :
               check_data_existence_decide(r, connects, engine, finalized)
        \/ \E verdict \in Verdicts : check_data_existence_resolve(r, verdict)
        \/ \E connects \in BOOLEAN, engine \in SelectOutcomes :
               check_and_execute_execute(r, connects, engine)
        \/ respond(r)

Spec == Init /\ [][Next]_vars

NextConc ==
    \E r \in Reqs :
        \/ /\ AdmitConc(r)
           /\ \E s \in Sessions, q \in Queries : process_query_history(r, s, q)
        \/ \E content \in ConcTexts : process_query_generate(r, content)
        \/ \E connects \in BOOLEAN, engine \in SelectOutcomes :
               process_query_execute(r, connects, engine)
        \/ process_query_save(r)

SpecConc == Init /\ [][NextConc]_vars

(***************************************************************************)
(* The claims.                                                             *)
(***************************************************************************)
Keywords == {kw_select, kw_with, kw_explain}

\* the claim's own reading of "starts with a keyword once trimmed and
\* lower-cased": some keyword stands, in any case, right after the leading
\* whitespace
KeywordAfterBlanks(s) ==
    \E k \in Keywords : \E i \in 1..(Len(s) + 1) :
        /\ \A j \in 1..(i - 1) : s[j] \in Whitespace
        /\ i + Len(k) - 1 <= Len(s)
        /\ \A j \in 1..Len(k) : lower_char(s[i + j - 1]) = k[j]

PolicyError(call) == call.raised = "ValueError" /\ call.message = PolicyMessage

\* C1: the read-only gate of execute_sql_query accepts a text if and only if
\* the text, trimmed and lower-cased, starts with select, with or explain.
C1_GateAcceptsExactlyKeywordPrefixes ==
    \A r \in Reqs :
        req[r].call.fn = "execute_sql_query" =>
            (~PolicyError(req[r].call) <=> KeywordAfterBlanks(req[r].call.arg))

\* the gate has accepted a text with leading whitespace and mixed case
C1_Witness ==
    \E r \in Reqs :
        /\ req[r].call.fn = "execute_sql_query"
        /\ req[r].call.arg = sql_mixed
        /\ ~PolicyError(req[r].call)

\* C2: a call of execute_sql_query with a text that fails the gate raises the
\* policy error, opens no connection and runs no statement.
C2_RejectedCallTouchesNothing ==
    \A r \in Reqs :
        (req[r].call.fn = "execute_sql_query" /\ ~is_read_only(req[r].call.arg)) =>
            /\ PolicyError(req[r].call)
            /\ req[r].call.connected = 0
            /\ req[r].call.executed = <<>>

\* execute_sql_query has been called with DELETE FROM Products
C2_Witness ==
    \E r \in Reqs :
        /\ req[r].call.fn = "execute_sql_query"
        /\ req[r].call.arg = sql_delete
        /\ req[r].call.raised = "ValueError"

\* C3: every statement a /query or /check-and-execute request hands to the
\* business-data store derives from a text that passes the read-only gate.
C3_ModelSqlIsGatedBeforeExecution ==
    \A r \in Reqs :
        req[r].ep \in {"query", "check-and-execute"} =>
            \A i \in DOMAIN req[r].ran : is_read_only(req[r].ran[i].source)

C5_HistoryIsTheAppendLog ==
    \A s \in Sessions : get_session_history(sessions, s) = appended[s]

\* two different turns were appended to one session, none to the other
C5_Witness ==
    \E s, t \in Sessions :
        /\ Len(appended[s]) >= 2
        /\ appended[s][1] # appended[s][2]
        /\ appended[t] = <<>>
        /\ get_session_history(sessions, t) = <<>>

\* C6: quick_check_sql returns false, and raises nothing, whenever the
\* execution of its EXISTS statement fails.
C6_ProberSwallowsExecutionErrors ==
    \A r \in Reqs :
        (/\ req[r].call.fn = "quick_check_sql"
         /\ req[r].call.executed # <<>>
         /\ req[r].call.engine_error # "None") =>
            /\ req[r].call.raised = "None"
            /\ req[r].call.ret = FALSE

\* C7: every connection a core call opens is closed when the call returns or
\* raises, and an engine error is not replaced by another error.
C7_ConnectionsReleased ==
    \A r \in Reqs :
        /\ req[r].call.closed = req[r].call.connected
        /\ (req[r].call.engine_error # "None" /\ req[r].call.raised # "None") =>
               req[r].call.raised = req[r].call.engine_error

\* C8: check_data_existence makes the first model call; with no tool
\* invocation it stops there and returns none; with one or more it runs the
\* prober once on the first invocation's sql_query, appends the two messages,
\* makes one second model call and returns its text; never more than two
\* model calls or one prober call.
C8_OracleProtocol ==
    \A r \in Reqs :
        /\ req[r].model_calls <= 2
        /\ req[r].prober_calls <= 1
        /\ req[r].cde \in {"returned", "raised"} =>
            IF req[r].tool_calls = <<>>
            THEN /\ req[r].cde = "returned"
                 /\ req[r].model_calls = 1
                 /\ req[r].prober_calls = 0
                 /\ req[r].data_exists = "None"
            ELSE /\ req[r].cde = "returned"
                 /\ req[r].prober_calls = 1
                 /\ req[r].call.fn = "quick_check_sql"
                 /\ req[r].call.arg =
                        json_loads(req[r].tool_calls[1].arguments)["sql_query"]
                 /\ Len(req[r].messages) = 3
                 /\ req[r].messages[2] = AssistantMessage(req[r].tool_calls)
                 /\ req[r].messages[3] =
                        ToolMessage(req[r].tool_calls[1].id, str_bool(req[r].call.ret))
                 /\ req[r].model_calls = 2
                 /\ req[r].data_exists \in Verdicts

\* the requests that have appended their turn to session s
Saved(s) ==
    {r \in Reqs : /\ req[r].ep = "query"
                  /\ req[r].call.fn = "save_to_session"
                  /\ req[r].session_id = s}

EntryOf(r) == [user |-> req[r].query, ai |-> req[r].ai_response]

\* C9: whatever the interleaving of /query requests, the history of a session
\* holds one entry per request that reached the append, each with the user
\* and ai of one request; nothing is lost, duplicated or merged.
C9_OneIntactEntryPerAppend ==
    \A s \in Sessions :
        LET history == get_session_history(sessions, s)
        IN  /\ Len(history) = Cardinality(Saved(s))
            /\ \A r \in Saved(s) :
                /\ EntryOf(r).ai = ai_response_of(req[r].sql_query, req[r].results)
                /\ Cardinality({i \in DOMAIN history : history[i] = EntryOf(r)})
                    = Cardinality({q \in Saved(s) : EntryOf(q) = EntryOf(r)})

\* two requests on one session both appended, the later slot's turn first
C9_Witness ==
    \E s \in Sessions :
        /\ Saved(s) = {1, 2}
        /\ EntryOf(1) # EntryOf(2)
        /\ get_session_history(sessions, s) = <<EntryOf(2), EntryOf(1)>>

\* the step ends a /query request in slot r
QueryEnds(r) ==
    /\ req[r].ep = "query"
    /\ req[r].pc # "done"
    /\ req'[r].pc = "done"

\* the execution of the request's SQL has succeeded
ExecutionSucceeded(r) ==
    /\ req[r].call.fn = "execute_sql_query"
    /\ req[r].call.raised = "None"

C10_Step ==
    /\ \A row \in sessions : row \in sessions'
    /\ sessions' # sessions => \E r \in Reqs : QueryEnds(r) /\ ExecutionSucceeded(r)
    /\ \A r \in Reqs :
        QueryEnds(r) =>
            IF ExecutionSucceeded(r)
            THEN \E row \in sessions' :
                    /\ row \notin sessions
                    /\ sessions' = sessions \cup {row}
                    /\ row.session_id = req[r].session_id
                    /\ row.user_request = req[r].query
            ELSE /\ sessions' = sessions
                 /\ req'[r].call.fn = "execute_sql_query"
                 /\ req'[r].call.raised # "None"

\* C10: a /query request appends one turn, for its session_id and with the
\* client's query as user_request, when the execution of its SQL succeeded,
\* and nothing otherwise; no request changes or removes an existing turn.
C10_OneTurnIffExecuted == [][C10_Step]_vars

\* a /query request has appended its turn beside an existing one
C10_Witness ==
    \E r \in Reqs :
        /\ req[r].ep = "query"
        /\ req[r].pc = "done"
        /\ req[r].call.fn = "save_to_session"
        /\ Cardinality(sessions) = 2

=============================================================================
